---- MODULE Spec2Model ----
(***************************************************************************)
(* Lifecycle state machine of WechatAudioPlayer (core/WechatAudioPlayer)   *)
(* together with the SoundJS binding it drives.  One player instance, the  *)
(* external audio engine (window.createjs.Sound), the WeChat bridge and    *)
(* the browser's timers are modelled; every public method and every        *)
(* deferred callback of the player is one action.                          *)
(***************************************************************************)
EXTENDS Integers, Sequences, FiniteSets, TLC

\* ------------------------------------------------------------------------
\* Bounds of the model
\* ------------------------------------------------------------------------
\* registrations of the user callback held at the same time
MaxUserRegistrations == 1

\* ------------------------------------------------------------------------
\* JavaScript values handed to setVolume; numbers are in tenths
\* ------------------------------------------------------------------------
Num(n) == [k |-> "num", v |-> n]
NaN == [k |-> "nan", v |-> 0]
PosInf == [k |-> "inf", v |-> 1]
Str == [k |-> "str", v |-> 0]
Tag(s) == [k |-> s, v |-> 0]
Bool(b) == [k |-> "bool", v |-> IF b THEN 1 ELSE 0]
Undefined == Tag("undefined")
EmptyStr == Tag("emptystr")

\* typeof x === 'string'
TypeofString(x) == x.k \in {"str", "emptystr", "id"}

\* !x
Falsy(x) == x.k \in {"undefined", "null", "emptystr", "nan"} \/ x = Num(0) \/ x = Bool(FALSE)

\* a ?? b
Coalesce(a, b) == IF a.k \in {"undefined", "null"} THEN b ELSE a

\* obj.key: undefined when the object has no such key
Prop(obj, key) == IF key \in DOMAIN obj THEN obj[key] ELSE Undefined

\* {...a, ...b} on objects given as functions from their own keys
Spread(a, b) == [key \in DOMAIN a \cup DOMAIN b |-> IF key \in DOMAIN b THEN b[key] ELSE a[key]]

\* config.volume ?? 0.8
DefaultVolume == 8
\* upper end of the volume range, 1.0
VolumeMax == 10

VolumeInputs == {Num(-1), Num(5), Num(VolumeMax + 1), NaN, PosInf, Str}

\* typeof x === 'number'
TypeofNumber(x) == x.k \in {"num", "nan", "inf"}

\* a < b on JavaScript numbers: every comparison with NaN is false
JSLess(a, b) ==
  CASE a.k = "nan" \/ b.k = "nan" -> FALSE
    [] a.k = "inf" /\ b.k = "inf" -> a.v < b.v
    [] a.k = "inf" -> a.v < 0
    [] b.k = "inf" -> b.v > 0
    [] OTHER -> a.v < b.v

\* ------------------------------------------------------------------------
\* Names
\* ------------------------------------------------------------------------
PlayerState == {"idle", "loading", "ready", "playing", "paused", "stopped", "error"}

EventNames == {"ready", "play", "pause", "stop", "ended", "volumechange",
               "timeupdate", "progress", "error", "statechange"}

\* events for which bindConfigCallbacks registers the configuration callback
ConfigEvents == {"ready", "play", "pause", "stop", "ended", "error",
                 "volumechange", "timeupdate"}

\* listener references: the configuration callbacks, one user callback and
\* one user callback whose every call throws
Listeners == {"cfg", "user", "faulty"}
Throwing == {"faulty"}
\* events on which the throwing callback is registered
FaultyEvents == {"statechange", "play"}
\* events on which the user callback is registered and removed
UserEvents == {"statechange", "volumechange"}

\* identifiers carried by the engine's fileload / fileerror events
OwnId == "audioId"
OtherId == "otherId"

\* function references handed to the engine: f.bind(this) is a new function
Bind(f) == <<"bound", f>>
Unbound(f) == <<"method", f>>

NoInstance == [h |-> "null", playState |-> "none", volume |-> Num(0), loop |-> 0]

Outcomes == {"ok", "throw"}
\* Sound.play returns a handle, returns null, or throws
PlayOutcomes == {"instance", "null", "throw"}

\* the outcome of an engine call is a choice only where the call is made
Made(called, out) == called \/ out = "ok"
MadePlay(called, out) == called \/ out = "instance"

VARIABLES
  state,            \* this.state
  soundInstance,    \* this.soundInstance (with the engine's view of the handle)
  audioLoaded,      \* this.audioLoaded
  destroyed,        \* this.destroyed
  weixinReady,      \* this.weixinReady
  eventListeners,   \* this.eventListeners: event name -> set of listeners
  config,           \* this.config (volume, muted, loop, autoplay, jssdk)
  isWeixin,         \* this.environmentInfo.isWeixin
  environmentInfo,  \* this.environmentInfo
  engine,           \* window.createjs.Sound and SoundJSBundle.initialized
  bridge,           \* window.WeixinJSBridge, the ready event, window.wx
  pc,               \* position of the initialize() chain
  timers,           \* pending timers and document listener of the player
  obs               \* what the last operation did; whether an init rejection went
                    \* unhandled, whether destroy() has returned, and the number
                    \* of Sound.registerSound calls so far

vars == <<state, soundInstance, audioLoaded, destroyed, weixinReady, eventListeners,
          config, isWeixin, environmentInfo, engine, bridge, pc, timers, obs>>

\* ------------------------------------------------------------------------
\* The world an operation runs in: a record of all variables, threaded
\* through the statements of a method
\* ------------------------------------------------------------------------
FreshObs(op) ==
  [lastOp |-> op, input |-> Tag("none"), result |-> "none", emitted |-> <<>>,
   calls |-> <<>>, threw |-> FALSE,
   unhandled |-> obs.unhandled,
   destroyReturned |-> obs.destroyReturned,
   registerCalls |-> obs.registerCalls]

World(op) ==
  [state |-> state, soundInstance |-> soundInstance, audioLoaded |-> audioLoaded,
   destroyed |-> destroyed, weixinReady |-> weixinReady,
   eventListeners |-> eventListeners, config |-> config, isWeixin |-> isWeixin,
   environmentInfo |-> environmentInfo,
   engine |-> engine, bridge |-> bridge, pc |-> pc, timers |-> timers,
   obs |-> FreshObs(op)]

Commit(w) ==
  /\ state' = w.state
  /\ soundInstance' = w.soundInstance
  /\ audioLoaded' = w.audioLoaded
  /\ destroyed' = w.destroyed
  /\ weixinReady' = w.weixinReady
  /\ eventListeners' = w.eventListeners
  /\ config' = w.config
  /\ isWeixin' = w.isWeixin
  /\ environmentInfo' = w.environmentInfo
  /\ engine' = w.engine
  /\ bridge' = w.bridge
  /\ pc' = w.pc
  /\ timers' = w.timers
  /\ obs' = w.obs

Result(w, r) == [w EXCEPT !.obs.result = r]

\* the argument the operation was called with
Input(w, x) == [w EXCEPT !.obs.input = x]

\* an engine call made by the operation threw
Threw(w) == [w EXCEPT !.obs.threw = TRUE]

\* a call made to the engine or to an engine handle
EngineCall(fn, loop, volume) == [fn |-> fn, loop |-> loop, volume |-> volume]
Call(w, fn) == [w EXCEPT !.obs.calls = Append(@, EngineCall(fn, 0, Num(0)))]
CallWith(w, fn, loop, volume) == [w EXCEPT !.obs.calls = Append(@, EngineCall(fn, loop, volume))]

\* Map<event, Set<listener>>
EmptyMap == [e \in {} |-> {}]
MapHas(m, key) == key \in DOMAIN m
MapGet(m, key) == IF key \in DOMAIN m THEN m[key] ELSE {}
MapSet(m, key, val) == [e \in DOMAIN m \cup {key} |-> IF e = key THEN val ELSE m[e]]
MapDelete(m, key) == [e \in DOMAIN m \ {key} |-> m[e]]

\* ------------------------------------------------------------------------
\* emit, setState, handleError
\* ------------------------------------------------------------------------
\* emit() without the try/catch around the call of a listener: the exception
\* of a throwing listener ends the iteration before the user callback
emit_NoCatch(w, event, arg) ==
  LET listeners == MapGet(w.eventListeners, event)
      reached == IF listeners \cap Throwing # {} THEN listeners \ {"user"} ELSE listeners
  IN [w EXCEPT !.obs.emitted =
        Append(@, [ev |-> event, arg |-> arg, to |-> reached, caught |-> {},
                   at |-> w.state])]

\* emit(event, ...args): every listener registered for the event is invoked;
\* the exception of a listener is caught and logged; a listener that calls
\* getStatus() reads the state the player is in at that moment
emit(w, event, arg) ==
  LET listeners == MapGet(w.eventListeners, event)
  IN [w EXCEPT !.obs.emitted =
        Append(@, [ev |-> event, arg |-> arg, to |-> listeners,
                   caught |-> listeners \cap Throwing, at |-> w.state])]

setState(w, newState) ==
  IF w.state # newState
    THEN emit([w EXCEPT !.state = newState], "statechange", Tag(newState))
    ELSE w

handleError(w, message) ==
  emit(setState(w, "error"), "error", Tag(message))

\* ------------------------------------------------------------------------
\* on / off / bindConfigCallbacks
\* ------------------------------------------------------------------------
\* on() giving the event a fresh set on every registration
on_ResetsEntry(w, event, listener) ==
  [w EXCEPT !.eventListeners = MapSet(@, event, {listener})]

on(w, event, listener) ==
  LET m == IF MapHas(w.eventListeners, event) THEN w.eventListeners
           ELSE MapSet(w.eventListeners, event, {})
  IN [w EXCEPT !.eventListeners = MapSet(m, event, m[event] \cup {listener})]

\* off() leaving the emptied set of the event in the map
off_KeepsEmptyEntry(w, event, listener) ==
  IF MapHas(w.eventListeners, event)
    THEN [w EXCEPT !.eventListeners = MapSet(@, event, w.eventListeners[event] \ {listener})]
    ELSE w

off(w, event, listener) ==
  IF MapHas(w.eventListeners, event)
    THEN LET rest == w.eventListeners[event] \ {listener}
         IN IF Cardinality(rest) = 0
              THEN [w EXCEPT !.eventListeners = MapDelete(@, event)]
              ELSE [w EXCEPT !.eventListeners = MapSet(@, event, rest)]
    ELSE w

bindConfigCallbacks(m) == [e \in DOMAIN m \cup ConfigEvents |->
                             IF e \in ConfigEvents THEN MapGet(m, e) \cup {"cfg"} ELSE m[e]]

\* ------------------------------------------------------------------------
\* play / pause / stop
\* ------------------------------------------------------------------------
\* this.soundInstance = inst: the handle referenced until now stays in the
\* engine, and keeps sounding unless it had been stopped
SetInstance(w, inst) ==
  [w EXCEPT !.soundInstance = inst,
            !.engine.orphans =
               IF w.soundInstance.h # "null" /\ w.soundInstance.playState \in {"playing", "paused"}
                 THEN @ + 1 ELSE @]

\* the catch block of play() rethrowing without reporting the error
playCatch_NoHandleError(w, message) == Result(w, message)

\* the catch block of play(): handleError(err); throw err
playCatch(w, message) == Result(handleError(w, message), message)

setupSoundInstanceEvents(w) ==
  IF w.soundInstance.h = "null" THEN w ELSE Call(w, "instance.on")

\* the try block of play() announcing playback before the state is changed
playTry_PlayBeforeState(w, stopOut, playOut) ==
  LET had == w.soundInstance.h # "null"
      w1 == IF had THEN Call(w, "instance.stop") ELSE w
  IN IF had /\ stopOut = "throw" THEN playCatch(w1, "engine error")
     ELSE
       LET w2 == IF had THEN [w1 EXCEPT !.soundInstance.playState = "stopped"] ELSE w1
           loop == IF w2.config.loop THEN -1 ELSE 0
           volume == IF w2.config.muted THEN Num(0) ELSE w2.config.volume
           w3 == CallWith(w2, "Sound.play", loop, volume)
       IN CASE playOut = "throw" -> playCatch(w3, "engine error")
            [] playOut = "null" ->
                 playCatch(SetInstance(w3, NoInstance), "Failed to create sound instance")
            [] OTHER ->
                 LET w4 == SetInstance(w3, [h |-> "inst", playState |-> "playing",
                                            volume |-> volume, loop |-> loop])
                     w5 == setupSoundInstanceEvents(w4)
                 IN Result(setState(emit(w5, "play", Tag("play")), "playing"), "resolved")

\* the try block of play() leaving the existing handle alone
playTry_NoStop(w, stopOut, playOut) ==
  LET loop == IF w.config.loop THEN -1 ELSE 0
      volume == IF w.config.muted THEN Num(0) ELSE w.config.volume
      w3 == CallWith(w, "Sound.play", loop, volume)
  IN CASE playOut = "throw" -> playCatch(w3, "engine error")
       [] playOut = "null" ->
            playCatch(SetInstance(w3, NoInstance), "Failed to create sound instance")
       [] OTHER ->
            LET w4 == SetInstance(w3, [h |-> "inst", playState |-> "playing",
                                       volume |-> volume, loop |-> loop])
                w5 == setupSoundInstanceEvents(w4)
            IN Result(emit(setState(w5, "playing"), "play", Tag("play")), "resolved")

\* the try block of play()
playTry(w, stopOut, playOut) ==
  LET had == w.soundInstance.h # "null"
      w1 == IF had THEN Call(w, "instance.stop") ELSE w
  IN IF had /\ stopOut = "throw" THEN playCatch(Threw(w1), "engine error")
     ELSE
       LET w2 == IF had THEN [w1 EXCEPT !.soundInstance.playState = "stopped"] ELSE w1
           loop == IF w2.config.loop THEN -1 ELSE 0
           volume == IF w2.config.muted THEN Num(0) ELSE w2.config.volume
           w3 == CallWith(w2, "Sound.play", loop, volume)
       IN CASE playOut = "throw" -> playCatch(Threw(w3), "engine error")
            [] playOut = "null" ->
                 playCatch(SetInstance(w3, NoInstance), "Failed to create sound instance")
            [] OTHER ->
                 LET w4 == SetInstance(w3, [h |-> "inst", playState |-> "playing",
                                            volume |-> volume, loop |-> loop])
                     w5 == setupSoundInstanceEvents(w4)
                 IN Result(emit(setState(w5, "playing"), "play", Tag("play")), "resolved")

\* play() without the audioLoaded precondition
play_NoLoadedCheck(w, stopOut, playOut) ==
  IF w.destroyed THEN Result(w, "Player has been destroyed")
  ELSE IF ~w.engine.avail THEN Result(w, "SoundJS not available")
  ELSE playTry(w, stopOut, playOut)

\* play() without the destroyed precondition
play_NoDestroyedCheck(w, stopOut, playOut) ==
  IF ~w.audioLoaded THEN Result(w, "Audio not loaded yet")
  ELSE IF ~w.engine.avail THEN Result(w, "SoundJS not available")
  ELSE playTry(w, stopOut, playOut)

play(w, stopOut, playOut) ==
  IF w.destroyed THEN Result(w, "Player has been destroyed")
  ELSE IF ~w.audioLoaded THEN Result(w, "Audio not loaded yet")
  ELSE IF ~w.engine.avail THEN Result(w, "SoundJS not available")
  ELSE playTry(w, stopOut, playOut)

pause(w, out) ==
  IF w.destroyed \/ w.soundInstance.h = "null" THEN Result(w, "ignored")
  ELSE IF out = "throw" THEN Result(Threw(Call(w, "instance.pause")), "logged")
  ELSE LET w1 == [Call(w, "instance.pause") EXCEPT !.soundInstance.playState =
                    IF @ = "playing" THEN "paused" ELSE @]
       IN Result(emit(setState(w1, "paused"), "pause", Tag("pause")), "returned")

\* stop() without its try/catch: the engine's exception reaches the caller
stop_Propagates(w, out) ==
  IF w.destroyed \/ w.soundInstance.h = "null" THEN Result(w, "ignored")
  ELSE IF out = "throw" THEN Result(Threw(Call(w, "instance.stop")), "engine error")
  ELSE LET w1 == [Call(w, "instance.stop") EXCEPT !.soundInstance.playState = "stopped"]
       IN Result(emit(setState(w1, "stopped"), "stop", Tag("stop")), "returned")

stop(w, out) ==
  IF w.destroyed \/ w.soundInstance.h = "null" THEN Result(w, "ignored")
  ELSE IF out = "throw" THEN Result(Threw(Call(w, "instance.stop")), "logged")
  ELSE LET w1 == [Call(w, "instance.stop") EXCEPT !.soundInstance.playState = "stopped"]
       IN Result(emit(setState(w1, "stopped"), "stop", Tag("stop")), "returned")

\* ------------------------------------------------------------------------
\* setVolume / setMuted / setLoop
\* ------------------------------------------------------------------------
\* typeof volume !== 'number' || volume < 0 || volume > 1
InvalidVolume(volume) ==
  ~TypeofNumber(volume) \/ JSLess(volume, Num(0)) \/ JSLess(Num(VolumeMax), volume)

\* setVolume applying the volume to the handle also when muted
setVolume_IgnoresMuted(w, volume, out) ==
  IF InvalidVolume(volume) THEN Result(w, "Volume must be a number between 0 and 1")
  ELSE
    LET w1 == [w EXCEPT !.config.volume = volume]
        w2 == IF w1.soundInstance.h # "null"
                THEN LET c == CallWith(w1, "instance.setVolume", 0, volume)
                     IN IF out = "throw" THEN Threw(c)
                        ELSE [c EXCEPT !.soundInstance.volume = volume]
                ELSE w1
    IN Result(emit(w2, "volumechange", volume), "returned")

setVolume(w, volume, out) ==
  IF InvalidVolume(volume) THEN Result(w, "Volume must be a number between 0 and 1")
  ELSE
    LET w1 == [w EXCEPT !.config.volume = volume]
        w2 == IF w1.soundInstance.h # "null" /\ ~w1.config.muted
                THEN LET c == CallWith(w1, "instance.setVolume", 0, volume)
                     IN IF out = "throw" THEN Threw(c)
                        ELSE [c EXCEPT !.soundInstance.volume = volume]
                ELSE w1
    IN Result(emit(w2, "volumechange", volume), "returned")

\* setMuted announcing the volume it applied
setMuted_EmitsVolumeChange(w, muted, out) ==
  LET w1 == [w EXCEPT !.config.muted = muted]
      volume == IF muted THEN Num(0) ELSE w1.config.volume
      w2 == IF w1.soundInstance.h # "null"
              THEN LET c == CallWith(w1, "instance.setVolume", 0, volume)
                   IN IF out = "throw" THEN Threw(c)
                      ELSE [c EXCEPT !.soundInstance.volume = volume]
              ELSE w1
  IN Result(emit(w2, "volumechange", volume), "returned")

setMuted(w, muted, out) ==
  LET w1 == [w EXCEPT !.config.muted = muted]
      volume == IF muted THEN Num(0) ELSE w1.config.volume
      w2 == IF w1.soundInstance.h # "null"
              THEN LET c == CallWith(w1, "instance.setVolume", 0, volume)
                   IN IF out = "throw" THEN Threw(c)
                      ELSE [c EXCEPT !.soundInstance.volume = volume]
              ELSE w1
  IN Result(w2, "returned")

setLoop(w, loop) == Result([w EXCEPT !.config.loop = loop], "returned")

\* ------------------------------------------------------------------------
\* getCurrentTime / getDuration / getStatus
\* ------------------------------------------------------------------------
\* values in milliseconds returned by the handle's getPosition / getDuration
EngineTimes == {0, 2000, 5000}

getVolume(w) == w.config.volume

\* seconds; 0 without a handle or when the handle throws
getCurrentTime(w, position, out) ==
  IF w.soundInstance.h = "null" THEN 0
  ELSE IF out = "throw" THEN 0
  ELSE position \div 1000

getDuration(w, duration, out) ==
  IF w.soundInstance.h = "null" THEN 0
  ELSE IF out = "throw" THEN 0
  ELSE duration \div 1000

\* getStatus() deriving isPlaying from the engine handle
getStatus_FromHandle(w, position, duration, out) ==
  [state |-> w.state,
   isPlaying |-> w.soundInstance.playState = "playing",
   volume |-> w.config.volume,
   muted |-> w.config.muted,
   loop |-> w.config.loop,
   currentTime |-> getCurrentTime(w, position, out),
   duration |-> getDuration(w, duration, out),
   loadProgress |-> IF w.audioLoaded THEN 1 ELSE 0,
   environment |-> w.environmentInfo]

getStatus(w, position, duration, out) ==
  [state |-> w.state,
   isPlaying |-> w.state = "playing",
   volume |-> w.config.volume,
   muted |-> w.config.muted,
   loop |-> w.config.loop,
   currentTime |-> getCurrentTime(w, position, out),
   duration |-> getDuration(w, duration, out),
   loadProgress |-> IF w.audioLoaded THEN 1 ELSE 0,
   environment |-> w.environmentInfo]

\* ------------------------------------------------------------------------
\* destroy
\* ------------------------------------------------------------------------
\* the statements of destroy() after the handle has been released
destroyRest(w, removeOut) ==
  LET remove == w.engine.avail /\ w.audioLoaded
      w1 == IF remove THEN Call(w, "Sound.removeSound") ELSE w
  IN IF remove /\ removeOut = "throw" THEN Result(Threw(w1), "logged")
     ELSE
       LET w2 == IF remove THEN [w1 EXCEPT !.engine.registered = FALSE] ELSE w1
           w3 == [w2 EXCEPT !.eventListeners = EmptyMap]
           w4 == IF w3.engine.avail
                   THEN [Call(Call(w3, "Sound.off"), "Sound.off") EXCEPT !.engine.listeners =
                           @ \ {Unbound("handleSoundLoad"), Unbound("handleSoundError")}]
                   ELSE w3
           w5 == setState(w4, "idle")
       IN Result([w5 EXCEPT !.destroyed = TRUE], "returned")

destroy(w, stopOut, destroyOut, removeOut) ==
  LET d == [w EXCEPT !.obs.destroyReturned = TRUE]
  IN IF d.destroyed THEN Result(d, "ignored")
     ELSE IF d.soundInstance.h # "null"
       THEN IF stopOut = "throw" THEN Result(Threw(Call(d, "instance.stop")), "logged")
            ELSE LET w1 == [Call(d, "instance.stop") EXCEPT !.soundInstance.playState = "stopped"]
                 IN IF destroyOut = "throw"
                      THEN Result(Threw(Call(w1, "instance.destroy")), "logged")
                    ELSE destroyRest(SetInstance(Call(w1, "instance.destroy"), NoInstance),
                                     removeOut)
       ELSE destroyRest(d, removeOut)

\* ------------------------------------------------------------------------
\* loadAudio, its poll and its timeout
\* ------------------------------------------------------------------------
\* the promise of loadAudio() resolves: initialize() returns
loadAudioResolved(w) == [w EXCEPT !.pc = "done"]

\* the promise of loadAudio() rejects.  initialize() awaits it inside its
\* try block; setupWeixinEnvironment chains .then(() => resolve()) on it
\* with no rejection handler and its own promise then never settles
loadAudioRejected(w, message) ==
  IF w.isWeixin
    THEN [w EXCEPT !.obs.unhandled = TRUE, !.pc = "hung"]
    ELSE handleError([w EXCEPT !.pc = "done"], message)

clearTimeout(w) == [w EXCEPT !.timers.loadTimer = IF @ = "armed" THEN "cleared" ELSE @]

checkLoad(w) ==
  IF w.audioLoaded THEN loadAudioResolved([clearTimeout(w) EXCEPT !.timers.poll = FALSE])
  ELSE IF w.state = "error"
    THEN loadAudioRejected([clearTimeout(w) EXCEPT !.timers.poll = FALSE], "Failed to load audio")
  ELSE [w EXCEPT !.timers.poll = TRUE]

loadAudio(w, regOut) ==
  IF ~w.engine.avail THEN loadAudioRejected(w, "SoundJS not available")
  ELSE LET w1 == [Call(w, "Sound.registerSound") EXCEPT !.obs.registerCalls = @ + 1]
       IN IF regOut = "throw" THEN loadAudioRejected(Threw(w1), "Failed to load audio")
          ELSE checkLoad([w1 EXCEPT !.engine.registered = TRUE,
                                    !.engine.load = IF @ = "none" THEN "pending" ELSE @,
                                    !.timers.loadTimer = "armed",
                                    !.pc = "loading"])

\* the load-timeout timer with a callback that raises no error
loadTimeout_Silent(w) == [w EXCEPT !.timers.loadTimer = "fired"]

\* the callback of the load-timeout timer
loadTimeout(w) ==
  LET w1 == [w EXCEPT !.timers.loadTimer = "fired"]
  IN IF ~w1.audioLoaded THEN handleError(w1, "Audio load timeout") ELSE w1

\* handleSoundLoad() starting playback whatever config.autoplay says
handleSoundLoad_AlwaysPlays(w, id, stopOut, playOut) ==
  IF id = OwnId
    THEN LET w1 == emit(setState([w EXCEPT !.audioLoaded = TRUE], "ready"), "ready", Tag("ready"))
             w2 == play(w1, stopOut, playOut)
         IN Result(w2, IF w2.obs.result = "resolved" THEN "autoplay resolved"
                       ELSE "autoplay failed")
    ELSE w

handleSoundLoad(w, id, stopOut, playOut) ==
  IF id = OwnId
    THEN LET w1 == emit(setState([w EXCEPT !.audioLoaded = TRUE], "ready"), "ready", Tag("ready"))
         IN IF w1.config.autoplay
              THEN LET w2 == play(w1, stopOut, playOut)
                   IN Result(w2, IF w2.obs.result = "resolved" THEN "autoplay resolved"
                                 ELSE "autoplay failed")
              ELSE w1
    ELSE w

\* handleSoundError() reacting to the load error of any identifier
handleSoundError_AnyId(w, id) == handleError(w, "Audio load error")

handleSoundError(w, id) ==
  IF id = OwnId THEN handleError(w, "Audio load error") ELSE w

\* ------------------------------------------------------------------------
\* initialize and the WeChat gating
\* ------------------------------------------------------------------------
setupSoundJSEventListeners(w) ==
  IF ~w.engine.avail THEN w
  ELSE [w EXCEPT !.engine.listeners =
          @ \cup {Bind("handleSoundLoad"), Bind("handleSoundError")}]

\* SoundJSBundle: the static initialized flag is engine.initialized
SoundJSBundle_isInitialized(w) == w.engine.initialized /\ w.engine.avail

\* configureSoundJS(): alternateExtensions and Sound.setVolume(0.8); an
\* exception of the engine is caught and logged there
configureSoundJS(w) ==
  IF ~w.engine.avail THEN w ELSE Call(w, "Sound.setVolume")

\* SoundJSBundle.initialize() throws
SoundJSBundle_initializeThrows(w) == ~w.engine.initialized /\ ~w.engine.avail

\* SoundJSBundle.initialize() setting its flag before it looks for the engine
SoundJSBundle_initialize_FlagFirst(w) ==
  IF w.engine.initialized THEN w
  ELSE configureSoundJS([w EXCEPT !.engine.initialized = TRUE])

\* what SoundJSBundle.initialize() leaves behind, thrown or returned
SoundJSBundle_initialize(w) ==
  IF w.engine.initialized THEN w
  ELSE IF ~w.engine.avail THEN w
  ELSE configureSoundJS([w EXCEPT !.engine.initialized = TRUE])

SoundJSBundle_getVersion(w) ==
  IF ~SoundJSBundle_isInitialized(w) THEN "not-initialized" ELSE "version"

SoundJSBundle_reset(w) == [w EXCEPT !.engine.initialized = FALSE]

\* SoundJSBundle.initialize() followed by setupSoundJSEventListeners()
loadSoundJS(w) ==
  IF SoundJSBundle_initializeThrows(w)
    THEN [SoundJSBundle_initialize(w) EXCEPT !.pc = "soundjs_failed"]
    ELSE setupSoundJSEventListeners([SoundJSBundle_initialize(w) EXCEPT !.pc = "soundjs_ok"])

setupWeixinEnvironment(w, regOut) ==
  IF w.bridge.present
    THEN loadAudio([w EXCEPT !.weixinReady = TRUE], regOut)
    ELSE [w EXCEPT !.timers.wxListener = TRUE, !.timers.wxTimer = "armed", !.pc = "wx_wait"]

handleWeixinReady(w, regOut) ==
  loadAudio([w EXCEPT !.weixinReady = TRUE, !.timers.wxListener = FALSE], regOut)

\* the fallback timer without its weixinReady check
weixinTimeout_NoReadyCheck(w, regOut) ==
  loadAudio([w EXCEPT !.timers.wxTimer = "fired", !.timers.wxListener = FALSE], regOut)

\* the callback of the 5 second fallback timer
weixinTimeout(w, regOut) ==
  LET w1 == [w EXCEPT !.timers.wxTimer = "fired"]
  IN IF ~w1.weixinReady
       THEN loadAudio([w1 EXCEPT !.timers.wxListener = FALSE], regOut)
       ELSE w1

\* step 3 of initialize()
initializeLoad(w, regOut) ==
  IF w.isWeixin THEN setupWeixinEnvironment(w, regOut) ELSE loadAudio(w, regOut)

initWeixinJSSDK(w, regOut) ==
  IF w.config.jssdk = "noconfig" THEN initializeLoad(w, regOut)
  ELSE IF w.bridge.wx THEN initializeLoad(w, regOut)
  ELSE [w EXCEPT !.pc = "jssdk_script"]

\* initialize() after `await this.loadSoundJS()`
initializeContinue(w, regOut) ==
  IF w.pc = "soundjs_failed" THEN handleError([w EXCEPT !.pc = "done"], "Failed to load SoundJS")
  ELSE IF w.config.jssdk # "off" /\ w.isWeixin THEN initWeixinJSSDK(w, regOut)
  ELSE initializeLoad(w, regOut)

\* initialize() up to its first await
initialize(w) == loadSoundJS(setState(w, "loading"))

\* ------------------------------------------------------------------------
\* detectEnvironment
\* ------------------------------------------------------------------------
\* navigator.userAgent as the set of the product tokens it contains, in the
\* spelling browsers send them; WeChat sends MicroMessenger/<version>
UserAgentTokens ==
  {"MicroMessenger", "MicroMessenger/8.0.38", "iPhone", "iPad", "iPod", "Android",
   "Safari", "Chrome", "Chromium", "Edge", "Firefox"}
UserAgents == SUBSET UserAgentTokens

\* String.prototype.toLowerCase on a token
LowerCase(token) ==
  CASE token = "MicroMessenger" -> "micromessenger"
    [] token = "MicroMessenger/8.0.38" -> "micromessenger/8.0.38"
    [] token = "iPhone" -> "iphone"
    [] token = "iPad" -> "ipad"
    [] token = "iPod" -> "ipod"
    [] token = "Android" -> "android"
    [] token = "Safari" -> "safari"
    [] token = "Chrome" -> "chrome"
    [] token = "Chromium" -> "chromium"
    [] token = "Edge" -> "edge"
    [] token = "Firefox" -> "firefox"
    [] OTHER -> token

toLowerCase(userAgent) == {LowerCase(token) : token \in userAgent}

\* /word/.test(text): the text has a token that contains the word
Test(word, text) ==
  \E token \in text : token = word \/ (word = "micromessenger" /\ token = "micromessenger/8.0.38")

\* text.match(/micromessenger\/(\d+\.\d+\.\d+)/): the captured version or undefined
MatchVersion(text) ==
  IF "micromessenger/8.0.38" \in text THEN Tag("8.0.38") ELSE Undefined

\* detectEnvironment() testing for safari before the WeChat token
detectEnvironment_SafariFirst(navigatorUserAgent) ==
  LET userAgent == toLowerCase(navigatorUserAgent)
      wx == Test("micromessenger", userAgent)
  IN [isWeixin |-> wx,
      isIOS |-> Test("iphone", userAgent) \/ Test("ipad", userAgent) \/ Test("ipod", userAgent),
      isAndroid |-> Test("android", userAgent),
      userAgent |-> userAgent,
      weixinVersion |-> IF wx THEN MatchVersion(userAgent) ELSE Undefined,
      supportsAutoplay |-> wx,
      browserType |->
        IF Test("safari", userAgent)
             /\ ~(Test("chrome", userAgent) \/ Test("chromium", userAgent) \/ Test("edge", userAgent))
          THEN "safari"
        ELSE IF wx THEN "weixin"
        ELSE IF Test("chrome", userAgent) \/ Test("chromium", userAgent) THEN "chrome"
        ELSE IF Test("firefox", userAgent) THEN "firefox"
        ELSE "other"]

\* detectEnvironment(); location.protocol (isHTTPS) is read by nothing else
\* and is left out
detectEnvironment(navigatorUserAgent) ==
  LET userAgent == toLowerCase(navigatorUserAgent)
      wx == Test("micromessenger", userAgent)
  IN [isWeixin |-> wx,
      isIOS |-> Test("iphone", userAgent) \/ Test("ipad", userAgent) \/ Test("ipod", userAgent),
      isAndroid |-> Test("android", userAgent),
      userAgent |-> userAgent,
      weixinVersion |-> IF wx THEN MatchVersion(userAgent) ELSE Undefined,
      supportsAutoplay |-> wx,
      browserType |->
        IF wx THEN "weixin"
        ELSE IF Test("safari", userAgent)
                  /\ ~(Test("chrome", userAgent) \/ Test("chromium", userAgent) \/ Test("edge", userAgent))
          THEN "safari"
        ELSE IF Test("chrome", userAgent) \/ Test("chromium", userAgent) THEN "chrome"
        ELSE IF Test("firefox", userAgent) THEN "firefox"
        ELSE "other"]

\* the user agent of a plain browser and of the WeChat web view
UserAgentOf(wechat) == IF wechat THEN {"MicroMessenger"} ELSE {}

\* the defaults of the nested options; the identifier is generated from the
\* clock and a random number and is a non-empty string
GeneratedId == Tag("id")
DefaultTimeout == 10000
DefaultLoadOptions ==
  [id |-> GeneratedId, preload |-> Bool(TRUE), formats |-> Tag("mp3,ogg,wav"),
   timeout |-> Num(DefaultTimeout)]
DefaultWeixinConfig == [enableJSSDK |-> Bool(FALSE)]

\* the nested options taken whole from the caller when given, with no merge
mergeConfig_ReplacesNested(cfg) ==
  [src |-> cfg.src,
   autoplay |-> Coalesce(cfg.autoplay, Bool(FALSE)),
   loop |-> Coalesce(cfg.loop, Bool(FALSE)),
   volume |-> Coalesce(cfg.volume, Num(DefaultVolume)),
   muted |-> Coalesce(cfg.muted, Bool(FALSE)),
   loadOptions |-> IF DOMAIN cfg.loadOptions = {} THEN DefaultLoadOptions ELSE cfg.loadOptions,
   weixinConfig |-> IF DOMAIN cfg.weixinConfig = {} THEN DefaultWeixinConfig ELSE cfg.weixinConfig,
   debug |-> Coalesce(cfg.debug, Bool(FALSE))]

\* this.config = {...}: top-level fields with ??, nested objects by spread
mergeConfig(cfg) ==
  [src |-> cfg.src,
   autoplay |-> Coalesce(cfg.autoplay, Bool(FALSE)),
   loop |-> Coalesce(cfg.loop, Bool(FALSE)),
   volume |-> Coalesce(cfg.volume, Num(DefaultVolume)),
   muted |-> Coalesce(cfg.muted, Bool(FALSE)),
   loadOptions |-> Spread(DefaultLoadOptions, cfg.loadOptions),
   weixinConfig |-> Spread(DefaultWeixinConfig, cfg.weixinConfig),
   debug |-> Coalesce(cfg.debug, Bool(FALSE))]

\* what initialize() and initWeixinJSSDK() read from config.weixinConfig
JssdkMode(weixinConfig) ==
  IF Falsy(Prop(weixinConfig, "enableJSSDK")) THEN "off"
  ELSE IF ~Falsy(Prop(weixinConfig, "jssdkConfig")) THEN "config"
  ELSE "noconfig"

\* the fields as their initializers leave them, before the constructor body
FieldInitializers(cfg, avail, present) ==
  [state |-> "idle", soundInstance |-> NoInstance, audioLoaded |-> FALSE,
   destroyed |-> FALSE, weixinReady |-> FALSE,
   eventListeners |-> EmptyMap,
   config |-> [volume |-> Undefined, muted |-> FALSE, loop |-> FALSE,
               autoplay |-> FALSE, jssdk |-> "off"],
   isWeixin |-> FALSE,
   environmentInfo |-> Undefined,
   engine |-> [avail |-> avail, initialized |-> FALSE, listeners |-> {},
               registered |-> FALSE, load |-> "none", orphans |-> 0],
   bridge |-> [present |-> present, readyFired |-> present, wx |-> FALSE],
   pc |-> "constructor",
   timers |-> [loadTimer |-> "unset", poll |-> FALSE, wxListener |-> FALSE,
               wxTimer |-> "unset"],
   obs |-> [lastOp |-> "constructor", input |-> cfg, result |-> "returned",
            emitted |-> <<>>,
            calls |-> <<>>, threw |-> FALSE, unhandled |-> FALSE,
            destroyReturned |-> FALSE, registerCalls |-> 0]]

\* the constructor accepting every truthy src, a string or not
constructor_TruthyOnly(cfg, userAgent, avail, present) ==
  LET fields == FieldInitializers(cfg, avail, present)
      c == mergeConfig(cfg)
      environment == detectEnvironment(userAgent)
  IN IF Falsy(cfg.src)
       THEN [fields EXCEPT !.pc = "threw",
                           !.obs.result = "Audio source (src) is required and must be a valid URL"]
       ELSE initialize([fields EXCEPT
              !.config = [volume |-> c.volume, muted |-> ~Falsy(c.muted),
                          loop |-> ~Falsy(c.loop), autoplay |-> ~Falsy(c.autoplay),
                          jssdk |-> JssdkMode(c.weixinConfig)],
              !.isWeixin = environment.isWeixin,
              !.environmentInfo = environment,
              !.eventListeners = bindConfigCallbacks(@)])

constructor(cfg, userAgent, avail, present) ==
  LET fields == FieldInitializers(cfg, avail, present)
      c == mergeConfig(cfg)
      environment == detectEnvironment(userAgent)
  IN IF Falsy(cfg.src) \/ ~TypeofString(cfg.src)
       THEN [fields EXCEPT !.pc = "threw",
                           !.obs.result = "Audio source (src) is required and must be a valid URL"]
       ELSE initialize([fields EXCEPT
              !.config = [volume |-> c.volume, muted |-> ~Falsy(c.muted),
                          loop |-> ~Falsy(c.loop), autoplay |-> ~Falsy(c.autoplay),
                          jssdk |-> JssdkMode(c.weixinConfig)],
              !.isWeixin = environment.isWeixin,
              !.environmentInfo = environment,
              !.eventListeners = bindConfigCallbacks(@)])

\* a configuration that sets src, autoplay, loop and the JSSDK options
Config(autoplay, loop, jssdk) ==
  [src |-> Str, autoplay |-> Bool(autoplay), loop |-> Bool(loop), volume |-> Undefined,
   muted |-> Undefined, debug |-> Undefined, loadOptions |-> EmptyMap,
   weixinConfig |-> CASE jssdk = "off" -> EmptyMap
                      [] jssdk = "noconfig" -> [enableJSSDK |-> Bool(TRUE)]
                      [] OTHER -> [enableJSSDK |-> Bool(TRUE), jssdkConfig |-> Tag("object")]]

\* the state in which `new WechatAudioPlayer(config)` returns
Constructed(autoplay, loop, jssdk, wechat, avail, present) ==
  LET w == constructor(Config(autoplay, loop, jssdk), UserAgentOf(wechat), avail, present)
  IN /\ state = w.state
     /\ soundInstance = w.soundInstance
     /\ audioLoaded = w.audioLoaded
     /\ destroyed = w.destroyed
     /\ weixinReady = w.weixinReady
     /\ eventListeners = w.eventListeners
     /\ config = w.config
     /\ isWeixin = w.isWeixin
     /\ environmentInfo = w.environmentInfo
     /\ engine = w.engine
     /\ bridge = w.bridge
     /\ pc = w.pc
     /\ timers = w.timers
     /\ obs = w.obs

\* every environment: inside and outside WeChat, bridge injected or not yet,
\* engine present or missing
Init ==
  \E autoplay, loop, wechat, avail, present \in BOOLEAN :
    /\ present => wechat
    /\ Constructed(autoplay, loop, "off", wechat, avail, present)

\* ------------------------------------------------------------------------
\* Actions: the continuation of initialize() and the deferred callbacks
\* ------------------------------------------------------------------------
InitContinue ==
  /\ pc \in {"soundjs_ok", "soundjs_failed"}
  /\ \E regOut \in Outcomes :
       /\ Made(pc = "soundjs_ok" /\ engine.avail /\ (isWeixin => bridge.present), regOut)
       /\ Commit(initializeContinue(World("initialize"), regOut))

\* script.onerror of the JSSDK script
JssdkScriptError ==
  /\ pc = "jssdk_script"
  /\ \E regOut \in Outcomes : Commit(initializeLoad(World("jssdk.onerror"), regOut))

\* script.onload of the JSSDK script: wx.config(), wx.ready(), wx.error();
\* an exception there leaves the promise of initWeixinJSSDK unsettled
JssdkScriptLoad ==
  /\ pc = "jssdk_script"
  /\ \E out \in Outcomes :
       Commit(IF out = "throw" THEN [World("jssdk.onload") EXCEPT !.pc = "hung"]
              ELSE [World("jssdk.onload") EXCEPT !.pc = "jssdk_config", !.bridge.wx = TRUE])

JssdkReady ==
  /\ pc = "jssdk_config"
  /\ \E regOut \in Outcomes : Commit(initializeLoad(World("wx.ready"), regOut))

JssdkError ==
  /\ pc = "jssdk_config"
  /\ \E regOut \in Outcomes : Commit(initializeLoad(World("wx.error"), regOut))

\* the host fires WeixinJSBridgeReady, at most once per page
BridgeReady ==
  /\ isWeixin
  /\ ~bridge.readyFired
  /\ \E regOut \in Outcomes :
       /\ Made(timers.wxListener /\ engine.avail, regOut)
       /\ LET w == [World("WeixinJSBridgeReady") EXCEPT !.bridge.present = TRUE,
                                                         !.bridge.readyFired = TRUE]
          IN Commit(IF w.timers.wxListener THEN handleWeixinReady(w, regOut) ELSE w)

WeixinFallback ==
  /\ timers.wxTimer = "armed"
  /\ \E regOut \in Outcomes :
       /\ Made(~weixinReady /\ engine.avail, regOut)
       /\ Commit(weixinTimeout(World("weixinTimeout"), regOut))

PollTick ==
  /\ timers.poll
  /\ Commit(checkLoad(World("checkLoad")))

LoadTimeout ==
  /\ timers.loadTimer = "armed"
  /\ Commit(loadTimeout(World("loadTimeout")))

\* the engine dispatches fileload to the handlers subscribed with Sound.on
EngineFileLoad ==
  /\ engine.avail
  /\ \E id \in {OwnId, OtherId}, stopOut \in Outcomes, playOut \in PlayOutcomes :
       /\ id = OwnId => (engine.registered /\ engine.load = "pending")
       /\ LET plays == /\ id = OwnId
                       /\ Bind("handleSoundLoad") \in engine.listeners
                       /\ config.autoplay
                       /\ ~destroyed
          IN /\ Made(plays /\ soundInstance.h # "null", stopOut)
             /\ MadePlay(plays /\ stopOut = "ok", playOut)
       /\ LET w == IF id = OwnId THEN [World("fileload") EXCEPT !.engine.load = "loaded"]
                   ELSE World("fileload other")
          IN Commit(IF Bind("handleSoundLoad") \in w.engine.listeners
                      THEN handleSoundLoad(w, id, stopOut, playOut)
                      ELSE w)

EngineFileError ==
  /\ engine.avail
  /\ \E id \in {OwnId, OtherId} :
       /\ id = OwnId => (engine.registered /\ engine.load = "pending")
       /\ LET w == IF id = OwnId THEN [World("fileerror") EXCEPT !.engine.load = "failed"]
                   ELSE World("fileerror other")
          IN Commit(IF Bind("handleSoundError") \in w.engine.listeners
                      THEN handleSoundError(w, id)
                      ELSE w)

\* the 'complete' listener without the loop check
complete_IgnoresLoop(w) == emit(setState(w, "stopped"), "ended", Tag("ended"))

\* the 'complete' listener installed by setupSoundInstanceEvents
complete(w) ==
  IF ~w.config.loop
    THEN emit(setState(w, "stopped"), "ended", Tag("ended"))
    ELSE w

EngineComplete ==
  /\ soundInstance.h = "inst"
  /\ soundInstance.playState = "playing"
  /\ Commit(complete([World("complete") EXCEPT !.soundInstance.playState =
                        IF soundInstance.loop = 0 THEN "stopped" ELSE @]))

\* ------------------------------------------------------------------------
\* Actions: the public methods, called by the host page
\* ------------------------------------------------------------------------
\* the page holds a player: its constructor returned
Held == pc # "threw"

Play ==
  /\ Held
  /\ \E stopOut \in Outcomes, playOut \in PlayOutcomes :
    /\ LET plays == ~destroyed /\ audioLoaded /\ engine.avail
       IN /\ Made(plays /\ soundInstance.h # "null", stopOut)
          /\ MadePlay(plays /\ stopOut = "ok", playOut)
    /\ Commit(play(World("play"), stopOut, playOut))

Pause ==
  /\ Held
  /\ \E out \in Outcomes :
    /\ Made(~destroyed /\ soundInstance.h # "null", out)
    /\ Commit(pause(World("pause"), out))

Stop ==
  /\ Held
  /\ \E out \in Outcomes :
    /\ Made(~destroyed /\ soundInstance.h # "null", out)
    /\ Commit(stop(World("stop"), out))

SetVolume ==
  /\ Held
  /\ \E volume \in VolumeInputs, out \in Outcomes :
    /\ Made(~InvalidVolume(volume) /\ soundInstance.h # "null" /\ ~config.muted, out)
    /\ Commit(setVolume(Input(World("setVolume"), volume), volume, out))

SetMuted ==
  /\ Held
  /\ \E muted \in BOOLEAN, out \in Outcomes :
    /\ Made(soundInstance.h # "null", out)
    /\ Commit(setMuted(Input(World("setMuted"), Bool(muted)), muted, out))

SetLoop ==
  /\ Held
  /\ \E loop \in BOOLEAN : Commit(setLoop(Input(World("setLoop"), Bool(loop)), loop))

UserRegistrations == Cardinality({e \in DOMAIN eventListeners : "user" \in eventListeners[e]})

\* on(event, f) with the user callback, also when it is registered already
On ==
  /\ Held
  /\ \E event \in UserEvents :
    LET present == "user" \in MapGet(eventListeners, event)
    IN /\ present \/ UserRegistrations < MaxUserRegistrations
       /\ Commit(Result(on(Input(World("on"), Tag(event)), event, "user"),
                         IF present THEN "present" ELSE "added"))

\* off(event, f) with the user callback, registered or not
Off ==
  /\ Held
  /\ \E event \in UserEvents :
    LET present == "user" \in MapGet(eventListeners, event)
    IN Commit(Result(off(Input(World("off"), Tag(event)), event, "user"),
                     IF present THEN "removed" ELSE "absent"))

Destroy ==
  /\ Held
  /\ \E stopOut \in Outcomes, destroyOut \in Outcomes, removeOut \in Outcomes :
    /\ Made(~destroyed /\ soundInstance.h # "null", stopOut)
    /\ Made(~destroyed /\ soundInstance.h # "null" /\ stopOut = "ok", destroyOut)
    /\ Made(~destroyed /\ engine.avail /\ audioLoaded /\ stopOut = "ok" /\ destroyOut = "ok",
            removeOut)
    /\ Commit(destroy(World("destroy"), stopOut, destroyOut, removeOut))

\* ------------------------------------------------------------------------
\* A listener that calls back into the player
\* ------------------------------------------------------------------------
\* play(), pause() and stop() end with setState(s); emit(e).  emit invokes
\* the listeners synchronously, so a statechange listener that calls play()
\* runs that play() between the two statements: outer is the world in which
\* the operation ends when the listener does nothing
CanReenter(outer) ==
  LET n == Len(outer.obs.emitted)
  IN /\ n >= 2
     /\ outer.obs.emitted[n - 1].ev = "statechange"
     /\ "user" \in outer.obs.emitted[n - 1].to

Reentered(outer, stopOut, playOut) ==
  LET n == Len(outer.obs.emitted)
      last == outer.obs.emitted[n]
      atListener == [outer EXCEPT !.obs.emitted = SubSeq(@, 1, n - 1)]
      nested == play(atListener, stopOut, playOut)
  IN Result(emit(nested, last.ev, last.arg), outer.obs.result)

\* on(event, f) with the callback that throws
OnFaulty ==
  /\ Held
  /\ \E event \in FaultyEvents :
    /\ "faulty" \notin MapGet(eventListeners, event)
    /\ Commit(Result(on(Input(World("on"), Tag(event)), event, "faulty"), "added"))

\* the page calls SoundJSBundle.initialize()
BundleInitialize ==
  LET w == World("SoundJSBundle.initialize")
  IN Commit(Result(SoundJSBundle_initialize(w),
                   IF SoundJSBundle_initializeThrows(w) THEN "Failed to initialize SoundJS"
                   ELSE "returned"))

\* the page calls SoundJSBundle.reset()
BundleReset == Commit(Result(SoundJSBundle_reset(World("SoundJSBundle.reset")), "returned"))

\* the script that defines window.createjs runs after the player was made
EngineAppears ==
  /\ ~engine.avail
  /\ Commit([World("engine script") EXCEPT !.engine.avail = TRUE])

\* the page calls play(), pause() or stop() while its statechange listener
\* calls play()
ListenerReplays ==
  /\ Held
  /\ "user" \in MapGet(eventListeners, "statechange")
  /\ ~destroyed
  /\ \E op \in {"play", "pause", "stop"},
        out \in Outcomes, playOut \in PlayOutcomes,
        stopOut2 \in Outcomes, playOut2 \in PlayOutcomes :
    LET w == World(op \o " with listener")
        outer == CASE op = "play" -> play(w, out, playOut)
                   [] op = "pause" -> pause(w, out)
                   [] OTHER -> stop(w, out)
    IN /\ Made(op = "play" /\ soundInstance.h # "null", out)
       /\ MadePlay(op = "play" /\ out = "ok", playOut)
       /\ CanReenter(outer)
       /\ MadePlay(stopOut2 = "ok", playOut2)
       /\ Commit(Reentered(outer, stopOut2, playOut2))

\* ------------------------------------------------------------------------
\* Specifications
\* ------------------------------------------------------------------------
\* Lifecycle: initialization in every environment, loading, playback control
\* and teardown, with the volume left at its default
Next ==
  \/ InitContinue
  \/ BridgeReady
  \/ WeixinFallback
  \/ PollTick
  \/ LoadTimeout
  \/ EngineFileLoad
  \/ EngineFileError
  \/ EngineComplete
  \/ Play
  \/ Pause
  \/ Stop
  \/ On
  \/ Off
  \/ Destroy

Spec == Init /\ [][Next]_vars

\* Controls: a player outside WeChat with the engine present, driven through
\* the playback methods and the volume, mute and loop setters, with the
\* configuration callbacks as its listeners; the load either completes or
\* fails at registration (load errors and the load timeout are explored by
\* Spec)
InitControls ==
  Constructed(FALSE, FALSE, "off", FALSE, TRUE, FALSE)

NextControls ==
  \/ InitContinue
  \/ PollTick
  \/ EngineFileLoad
  \/ EngineComplete
  \/ Play
  \/ Pause
  \/ Stop
  \/ SetVolume
  \/ SetMuted
  \/ SetLoop
  \/ Destroy

SpecControls == InitControls /\ [][NextControls]_vars

\* Listeners: the same player at its default volume, with a user callback
\* registered and removed, which may call play() from inside a statechange
\* emission
NextListener ==
  \/ InitContinue
  \/ PollTick
  \/ EngineFileLoad
  \/ EngineComplete
  \/ Play
  \/ Pause
  \/ Stop
  \/ SetMuted
  \/ SetLoop
  \/ On
  \/ Off
  \/ ListenerReplays
  \/ Destroy

SpecListener == InitControls /\ [][NextListener]_vars

\* Loading: initialization and load in every environment with play() and
\* destroy() as the only calls of the page; an armed load-timeout timer
\* eventually fires
NextLoad ==
  \/ InitContinue
  \/ BridgeReady
  \/ WeixinFallback
  \/ PollTick
  \/ LoadTimeout
  \/ EngineFileLoad
  \/ EngineFileError
  \/ Play
  \/ Destroy

SpecLoad == Init /\ [][NextLoad]_vars /\ WF_vars(LoadTimeout)

\* Bridge configuration: a player in WeChat with weixinConfig.enableJSSDK set,
\* with or without a jssdkConfig, window.wx already defined by the page or
\* not, the bridge indicator injected or not yet
ConstructedJssdk(jssdk, present, wx) ==
  LET w == [constructor(Config(FALSE, FALSE, jssdk), UserAgentOf(TRUE), TRUE, present) EXCEPT !.bridge.wx = wx]
  IN /\ state = w.state
     /\ soundInstance = w.soundInstance
     /\ audioLoaded = w.audioLoaded
     /\ destroyed = w.destroyed
     /\ weixinReady = w.weixinReady
     /\ eventListeners = w.eventListeners
     /\ config = w.config
     /\ isWeixin = w.isWeixin
     /\ environmentInfo = w.environmentInfo
     /\ engine = w.engine
     /\ bridge = w.bridge
     /\ pc = w.pc
     /\ timers = w.timers
     /\ obs = w.obs

InitJssdk ==
  \E jssdk \in {"config", "noconfig"}, present \in BOOLEAN, wx \in BOOLEAN :
    ConstructedJssdk(jssdk, present, wx)

NextJssdk ==
  \/ InitContinue
  \/ JssdkScriptError
  \/ JssdkScriptLoad
  \/ JssdkReady
  \/ JssdkError
  \/ BridgeReady
  \/ WeixinFallback
  \/ PollTick
  \/ LoadTimeout
  \/ EngineFileLoad
  \/ EngineFileError
  \/ Play
  \/ Stop
  \/ Destroy

\* Throwing listeners: the same player with a callback that throws registered
\* on statechange and play beside the user callback
NextThrowing ==
  \/ InitContinue
  \/ PollTick
  \/ EngineFileLoad
  \/ EngineComplete
  \/ Play
  \/ Pause
  \/ Stop
  \/ On
  \/ OnFaulty
  \/ Destroy

SpecThrowing == InitControls /\ [][NextThrowing]_vars

\* Configurations: construction from every configuration of ConfigInputs
\* outside WeChat with the engine present, then load, play(), setVolume()
\* and destroy()
SrcInputs == {Undefined, EmptyStr, Num(1), Str}
VolumeConfigs == {Undefined, Num(5), Num(VolumeMax + 5), NaN}
FlagInputs == {Undefined, Bool(TRUE)}
LoadOptionInputs ==
  {EmptyMap, [timeout |-> Num(3000)], [id |-> Tag("own id"), preload |-> Bool(FALSE)]}
WeixinConfigInputs ==
  {EmptyMap, [enableJSSDK |-> Bool(TRUE)], [jssdkConfig |-> Tag("object")]}

ConfigInputs ==
  [src : SrcInputs, autoplay : FlagInputs, loop : FlagInputs, volume : VolumeConfigs,
   muted : FlagInputs, debug : FlagInputs, loadOptions : LoadOptionInputs,
   weixinConfig : WeixinConfigInputs]

\* the state in which `new WechatAudioPlayer(cfg)` returns or throws
ConstructedFrom(cfg, userAgent, avail, present) ==
  LET w == constructor(cfg, userAgent, avail, present)
  IN /\ state = w.state
     /\ soundInstance = w.soundInstance
     /\ audioLoaded = w.audioLoaded
     /\ destroyed = w.destroyed
     /\ weixinReady = w.weixinReady
     /\ eventListeners = w.eventListeners
     /\ config = w.config
     /\ isWeixin = w.isWeixin
     /\ environmentInfo = w.environmentInfo
     /\ engine = w.engine
     /\ bridge = w.bridge
     /\ pc = w.pc
     /\ timers = w.timers
     /\ obs = w.obs

InitConfig == \E cfg \in ConfigInputs : ConstructedFrom(cfg, UserAgentOf(FALSE), TRUE, FALSE)

NextConfig ==
  \/ InitContinue
  \/ PollTick
  \/ EngineFileLoad
  \/ Play
  \/ SetVolume
  \/ Destroy

SpecConfig == InitConfig /\ [][NextConfig]_vars

\* Environments: construction under every user agent of UserAgents with the
\* engine present, then initialization and load
InitEnvironment ==
  \E userAgent \in UserAgents :
    ConstructedFrom(Config(FALSE, FALSE, "off"), userAgent, TRUE, FALSE)

NextEnvironment ==
  \/ InitContinue
  \/ BridgeReady
  \/ WeixinFallback
  \/ PollTick
  \/ EngineFileLoad

SpecEnvironment == InitEnvironment /\ [][NextEnvironment]_vars

\* Bundle: the lifecycle with the page calling SoundJSBundle.initialize() and
\* reset() itself, and the engine global appearing after construction
NextBundle ==
  \/ InitContinue
  \/ PollTick
  \/ EngineFileLoad
  \/ Play
  \/ BundleInitialize
  \/ BundleReset
  \/ EngineAppears

SpecBundle == Init /\ [][NextBundle]_vars

SpecJssdk == InitJssdk /\ [][NextJssdk]_vars

\* ------------------------------------------------------------------------
\* Observations used by the properties
\* ------------------------------------------------------------------------
\* the last operation called emit(event)
Emitted(o, event) == \E i \in 1..Len(o.emitted) : o.emitted[i].ev = event

\* the last operation invoked a listener of the event
Delivered(o, event) ==
  \E i \in 1..Len(o.emitted) : o.emitted[i].ev = event /\ o.emitted[i].to # {}

\* invocations of the onError configuration callback by the last operation
OnErrorCalls(o) ==
  Cardinality({i \in 1..Len(o.emitted) : o.emitted[i].ev = "error" /\ "cfg" \in o.emitted[i].to})

\* the last operation called the engine function fn
Called(o, fn) == \E i \in 1..Len(o.calls) : o.calls[i].fn = fn

\* the states the last operation went through: the state s0 it began in,
\* followed by the new state of every setState() that changed the state
StatePath(s0, o) ==
  LET sc == SelectSeq(o.emitted, LAMBDA e : e.ev = "statechange")
  IN <<s0>> \o [i \in 1..Len(sc) |-> sc[i].arg.k]

\* handles created by the player that the engine has not stopped
LiveHandles ==
  engine.orphans + (IF soundInstance.playState \in {"playing", "paused"} THEN 1 ELSE 0)

\* the volume the handle should sound at: 0 when muted, else config.volume
EffectiveVolume == IF config.muted THEN Num(0) ELSE config.volume

\* the player's own fields
Fields == <<state, soundInstance, audioLoaded, destroyed, weixinReady, eventListeners, config>>

\* ------------------------------------------------------------------------
\* Properties
\* ------------------------------------------------------------------------

\* C1: every initialization failure (engine unavailable, engine-reported
\* load error, load timeout) ends in state error with an error event, and no
\* promise rejection of the initialization chain is left unhandled.
C1_InitFailureSurfaces ==
  /\ ~obs.unhandled
  /\ (obs.lastOp = "initialize" /\ ~engine.avail) => (state = "error" /\ Emitted(obs, "error"))
  /\ (obs.lastOp = "fileerror" /\ ~destroyed) => (state = "error" /\ Emitted(obs, "error"))
  /\ (obs.lastOp = "loadTimeout" /\ ~audioLoaded) => (state = "error" /\ Emitted(obs, "error"))

\* C2: an engine fileerror for the player's identifier during loading puts
\* the player in state error and invokes onError exactly once for that
\* failure: once by the handler, and not again when the load poll notices the
\* failure (no timeout having fired).
C2_OnErrorOnce ==
  /\ (obs.lastOp = "fileerror" /\ ~destroyed) => (state = "error" /\ OnErrorCalls(obs) = 1)
  /\ (obs.lastOp = "checkLoad" /\ engine.load = "failed" /\ timers.loadTimer # "fired")
       => OnErrorCalls(obs) = 0

\* C3: play() on a non-destroyed player whose load has not completed rejects
\* with "Audio not loaded yet", leaves the state (and every other field)
\* unchanged, emits nothing and makes no engine call.
C3_PlayBeforeLoad ==
  [][(obs'.lastOp = "play" /\ ~destroyed /\ ~audioLoaded) =>
       /\ obs'.result = "Audio not loaded yet"
       /\ Fields' = Fields
       /\ obs'.emitted = <<>>
       /\ obs'.calls = <<>>]_vars

C3_Witness ==
  /\ obs.lastOp = "play"
  /\ obs.result = "Audio not loaded yet"
  /\ state = "loading"
  /\ engine.registered

\* C4: once destroy() has marked the player destroyed, no pending callback
\* changes its state (it stays idle), registers the source or starts playback.
C4_QuietAfterDestroy ==
  destroyed =>
    /\ state = "idle"
    /\ ~Called(obs, "Sound.registerSound")
    /\ ~Called(obs, "Sound.play")

\* C5: a destroy() call made after an earlier destroy() call has returned
\* changes no state, makes no engine call and emits no event.
C5_DestroyIdempotent ==
  [][(obs'.lastOp = "destroy" /\ obs.destroyReturned) =>
       /\ Fields' = Fields
       /\ engine' = engine
       /\ obs'.emitted = <<>>
       /\ obs'.calls = <<>>]_vars

\* C6: destroy() never throws and once it has returned the instance is
\* destroyed for good; when the call that tears the player down returns, the
\* state is idle and the listener registry is empty, whatever the engine did
\* during teardown.
C6_DestroyCompletes ==
  /\ obs.destroyReturned => destroyed
  /\ (obs.lastOp = "destroy" /\ obs.result # "ignored") =>
       (state = "idle" /\ eventListeners = EmptyMap)

\* C7: the first destroy() call releases the active handle, unregisters the
\* source identifier if it was registered, unsubscribes the engine-level
\* fileload/fileerror handlers and leaves the listener registry empty.
C7_DestroyReleases ==
  [][(obs'.lastOp = "destroy" /\ ~obs.destroyReturned) =>
       /\ soundInstance' = NoInstance
       /\ soundInstance.h # "null" =>
            (Called(obs', "instance.stop") /\ Called(obs', "instance.destroy"))
       /\ engine.registered => ~engine'.registered
       /\ engine'.listeners = {}
       /\ eventListeners' = EmptyMap]_vars

\* C8: on a destroyed player play() rejects with "Player has been destroyed"
\* and pause() and stop() are ignored; none of them changes a field, calls
\* the engine or emits an event.
C8_DestroyedPlayPauseStop ==
  [][(destroyed /\ obs'.lastOp \in {"play", "pause", "stop"}) =>
       /\ obs'.result = IF obs'.lastOp = "play" THEN "Player has been destroyed" ELSE "ignored"
       /\ Fields' = Fields
       /\ engine' = engine
       /\ obs'.emitted = <<>>
       /\ obs'.calls = <<>>]_vars

C8_Witness ==
  /\ destroyed
  /\ audioLoaded
  /\ obs.lastOp = "play"
  /\ obs.result = "Player has been destroyed"

\* C9: on a destroyed player setVolume(v) and setMuted(flag) are ignored: the
\* configured volume and muted flag are unchanged and no volumechange is
\* delivered to any listener.
C9_DestroyedSettersIgnored ==
  [][(destroyed /\ obs'.lastOp \in {"setVolume", "setMuted"}) =>
       /\ config' = config
       /\ ~Delivered(obs', "volumechange")]_vars

\* C10: setVolume(v) returns normally only for a finite number v in [0,1]
\* (v is the volume it then records); otherwise it throws, leaves the
\* configuration unchanged, does not touch the handle and emits nothing.
C10_InvalidVolumeThrows ==
  [][obs'.lastOp = "setVolume" =>
       IF obs'.result = "returned"
         THEN config'.volume.k = "num" /\ 0 <= config'.volume.v /\ config'.volume.v <= VolumeMax
         ELSE /\ obs'.result = "Volume must be a number between 0 and 1"
              /\ Fields' = Fields
              /\ obs'.emitted = <<>>
              /\ obs'.calls = <<>>]_vars

\* C11: every change of the player's state is a transition of the state
\* table: loading to ready on load success; loading to error on an
\* initialization failure; to playing by a successful play() from ready,
\* playing, paused or stopped; to error from those states by a failed play();
\* playing to paused by pause(); paused/playing to stopped by stop(); playing
\* to stopped on natural completion; any state to idle by destroy().  Stated
\* for a player on which destroy() has not been called before.
C11_OnlyTableTransitions ==
  [][LET path == StatePath(state, obs')
         op == obs'.lastOp
         Started == {"ready", "playing", "paused", "stopped"}
         TableStep(from, to) ==
           \/ from = "loading" /\ to = "ready" /\ op = "fileload"
           \/ from = "loading" /\ to = "error" /\ op \notin {"play", "pause", "stop", "destroy"}
           \/ from \in Started /\ to = "playing" /\ op \in {"play", "fileload"}
           \/ from \in Started /\ to = "error" /\ op \in {"play", "fileload"}
           \/ from = "playing" /\ to = "paused" /\ op = "pause"
           \/ from \in {"paused", "playing"} /\ to = "stopped" /\ op = "stop"
           \/ from = "playing" /\ to = "stopped" /\ op = "complete"
           \/ to = "idle" /\ op = "destroy"
     IN ~obs.destroyReturned =>
          /\ path[Len(path)] = state'
          /\ \A i \in 1..(Len(path) - 1) : TableStep(path[i], path[i + 1])]_vars

\* C12: each change of the player's state delivers one statechange carrying
\* the new state to every listener that was registered for statechange when
\* the causing operation began (the change to idle made by destroy()
\* included), and an operation that leaves the state unchanged delivers none.
C12_StateChangeDelivered ==
  [][LET path == StatePath(state, obs')
         sc == SelectSeq(obs'.emitted, LAMBDA e : e.ev = "statechange")
     IN /\ path[Len(path)] = state'
        /\ \A i \in 1..Len(sc) :
             /\ path[i] # path[i + 1]
             /\ MapGet(eventListeners, "statechange") \subseteq sc[i].to]_vars

\* a play() call, or the autoplay made by the fileload handler, succeeded
PlaySucceeded(o) ==
  \/ o.lastOp = "play" /\ o.result = "resolved"
  \/ o.lastOp = "fileload" /\ o.result = "autoplay resolved"

\* a statechange to playing was emitted, and the play event after it
StateChangeThenPlay(o) ==
  \E i, j \in 1..Len(o.emitted) :
    /\ i < j
    /\ o.emitted[i].ev = "statechange" /\ o.emitted[i].arg = Tag("playing")
    /\ o.emitted[j].ev = "play"

\* C13 as stated: every successful play(), whatever the state it is called
\* in (playing included), emits a statechange to playing and emits it before
\* the play event.
C13_AlwaysStateChangeThenPlay ==
  [][PlaySucceeded(obs') => StateChangeThenPlay(obs')]_vars

\* C13 amended: every successful play() emits the play event; called in a
\* state other than playing it emits a statechange to playing before the
\* play event, and called in state playing it emits no statechange.
C13_StateChangeThenPlayUnlessPlaying ==
  [][PlaySucceeded(obs') =>
       LET before == IF obs'.lastOp = "fileload" THEN "ready" ELSE state
       IN /\ Emitted(obs', "play")
          /\ IF before = "playing"
               THEN ~Emitted(obs', "statechange")
               ELSE StateChangeThenPlay(obs')]_vars

C13_Witness ==
  /\ obs.lastOp = "play"
  /\ obs.result = "resolved"
  /\ StateChangeThenPlay(obs)
  /\ soundInstance.playState = "playing"

C15_GatingProceedsOnce ==
  timers.wxTimer # "unset" =>
    /\ obs.registerCalls <= 1
    /\ (timers.wxTimer = "fired" \/ weixinReady) => obs.registerCalls = 1
    /\ pc = "wx_wait" => (obs.registerCalls = 0 /\ timers.wxListener /\ timers.wxTimer = "armed")

C15_Witness ==
  /\ timers.wxTimer = "fired"
  /\ weixinReady
  /\ bridge.readyFired
  /\ obs.lastOp = "weixinTimeout"
  /\ obs.registerCalls = 1

\* C16: with the bridge integration enabled in WeChat, the outcome of the
\* bridge configuration never gates audio initialization: as long as the
\* source has not been registered, a continuation that will register it is
\* still pending, whatever the bridge script and wx.config/ready/error did.
C16_JssdkNeverGates ==
  (config.jssdk # "off" /\ isWeixin /\ ~destroyed /\ state = "loading" /\ obs.registerCalls = 0)
    => pc \in {"soundjs_ok", "jssdk_script", "jssdk_config", "wx_wait"}

\* C17: once the source has been registered, a player that is not destroyed
\* always leaves loading: the engine's fileload takes it to ready, the
\* engine's fileerror to error, the load timeout to error with the timeout
\* failure, and one of the three eventually happens.
C17_LeavesLoading ==
  /\ [][(engine.registered /\ state = "loading" /\ ~destroyed) =>
          /\ obs'.lastOp = "fileload" =>
               (StatePath(state, obs')[2] = "ready" /\ state' # "loading")
          /\ obs'.lastOp = "fileerror" => state' = "error"
          /\ obs'.lastOp = "loadTimeout" =>
               /\ state' = "error"
               /\ \E i \in 1..Len(obs'.emitted) :
                    /\ obs'.emitted[i].ev = "error"
                    /\ obs'.emitted[i].arg = Tag("Audio load timeout")]_vars
  /\ (engine.registered /\ state = "loading") ~> (state # "loading")

C17_Witness ==
  /\ obs.lastOp = "loadTimeout"
  /\ engine.registered
  /\ engine.load = "pending"
  /\ ~destroyed
  /\ state = "error"

\* C18: once the load has completed, by the engine's fileload or by its
\* fileerror, the load-timeout timer produces no further error event and no
\* error state, whenever its callback runs relative to the 100 ms poll.
C18_NoTimeoutAfterCompletion ==
  [][(obs'.lastOp = "loadTimeout" /\ engine.load \in {"loaded", "failed"}) =>
       /\ ~Emitted(obs', "error")
       /\ state' = state]_vars

\* C19: when play() passes its precondition checks but the engine returns no
\* handle or throws, play() rejects to its caller, the state becomes error,
\* exactly one error event is emitted and no play event is emitted.
C19_FailedPlayReports ==
  [][(obs'.lastOp = "play" /\ ~destroyed /\ audioLoaded /\ engine.avail
        /\ obs'.result # "resolved") =>
       LET errors == SelectSeq(obs'.emitted, LAMBDA e : e.ev = "error")
       IN /\ obs'.result \in {"engine error", "Failed to create sound instance"}
          /\ state' = "error"
          /\ Len(errors) = 1
          /\ errors[1].arg = Tag(obs'.result)
          /\ ~Emitted(obs', "play")]_vars

C19_Witness ==
  /\ obs.lastOp = "play"
  /\ obs.result = "Failed to create sound instance"
  /\ Called(obs, "Sound.play")
  /\ state = "error"
  /\ soundInstance = NoInstance

\* C20: every play() that reaches the engine first stops the player's
\* existing handle, then requests a new instance with loop = -1 iff loop is
\* configured and volume = 0 if muted, else the configured volume; after any
\* sequence of calls, play() called from inside a listener included, at most
\* one handle of the player is not stopped.
C20_PlayReplacesHandle ==
  [][/\ (obs'.lastOp \in {"play", "fileload"} /\ Called(obs', "Sound.play")) =>
          LET k == CHOOSE i \in 1..Len(obs'.calls) : obs'.calls[i].fn = "Sound.play"
          IN /\ soundInstance.h # "null" => (k = 2 /\ obs'.calls[1].fn = "instance.stop")
             /\ soundInstance.h = "null" => k = 1
             /\ obs'.calls[k].loop = (IF config.loop THEN -1 ELSE 0)
             /\ obs'.calls[k].volume = (IF config.muted THEN Num(0) ELSE config.volume)
             /\ \A i \in 1..Len(obs'.calls) : obs'.calls[i].fn = "Sound.play" => i = k
     /\ LiveHandles' <= 1]_vars

C20_Witness ==
  /\ obs.lastOp = "play"
  /\ obs.result = "resolved"
  /\ obs.calls[1].fn = "instance.stop"
  /\ obs.calls[2].fn = "Sound.play"
  /\ config.muted
  /\ config.loop
  /\ obs.calls[2].volume = Num(0)
  /\ obs.calls[2].loop = -1
  /\ LiveHandles = 1

\* C21: play(), setVolume(v) and setMuted(flag) during which the engine does
\* not throw keep the volume applied to the active handle equal to the
\* effective volume (0 when muted, else the configured volume); a player
\* starts without a handle, so this holds after any such sequence.
C21_HandleHasEffectiveVolume ==
  [][(/\ obs'.lastOp \in {"play", "setVolume", "setMuted"}
      /\ ~obs'.threw
      /\ soundInstance.h # "null" => soundInstance.volume = EffectiveVolume)
       => (soundInstance'.h # "null" => soundInstance'.volume = EffectiveVolume')]_vars

C21_Witness ==
  /\ obs.lastOp = "setVolume"
  /\ obs.result = "returned"
  /\ config.muted
  /\ config.volume = Num(5)
  /\ soundInstance.playState = "playing"
  /\ soundInstance.volume = Num(0)

C23_PauseStopNeverThrow ==
  [][obs'.lastOp \in {"pause", "stop"} =>
       /\ obs'.result \in {"ignored", "logged", "returned"}
       /\ soundInstance.h = "null" =>
            (Fields' = Fields /\ obs'.emitted = <<>> /\ obs'.calls = <<>>)
       /\ obs'.threw =>
            (state' = state /\ obs'.emitted = <<>> /\ obs'.result = "logged")]_vars

C23_Witness ==
  /\ obs.lastOp = "stop"
  /\ obs.threw
  /\ obs.result = "logged"
  /\ state = "playing"
  /\ soundInstance.playState = "playing"

\* C24: an ordinary stop releases the engine handle: after stop() has
\* returned the player holds no handle, getCurrentTime() and getDuration()
\* return 0, and a following pause() or stop() changes no state and emits
\* no event.
C24_StopReleasesHandle ==
  [][/\ (obs'.lastOp = "stop" /\ obs'.result = "returned") =>
          /\ soundInstance'.h = "null"
          /\ \A t \in EngineTimes :
               /\ getCurrentTime([soundInstance |-> soundInstance'], t, "ok") = 0
               /\ getDuration([soundInstance |-> soundInstance'], t, "ok") = 0
     /\ (obs.lastOp = "stop" /\ obs.result = "returned"
          /\ obs'.lastOp \in {"pause", "stop"}) =>
          (state' = state /\ obs'.emitted = <<>>)]_vars

\* C25: at every point after construction the player is in one of the
\* seven states, getStatus() reports that state, getStatus().isPlaying is
\* true iff the state is playing, and getStatus().loadProgress is 1 if the
\* engine has completed the load of the player's source and 0 otherwise.
C25_StatusReflectsState ==
  /\ state \in PlayerState
  /\ \A position \in EngineTimes, duration \in EngineTimes, out \in Outcomes :
       LET status == getStatus(World("getStatus"), position, duration, out)
       IN /\ status.state = state
          /\ status.isPlaying <=> (state = "playing")
          /\ status.loadProgress = (IF engine.load = "loaded" THEN 1 ELSE 0)

C25_Witness ==
  /\ state = "error"
  /\ engine.load = "loaded"
  /\ soundInstance.playState = "playing"
  /\ ~getStatus(World("getStatus"), 2000, 5000, "ok").isPlaying
  /\ getStatus(World("getStatus"), 2000, 5000, "ok").loadProgress = 1

\* C26: on(event, f) followed by off(event, f) restores the registry: f is
\* gone, no entry remains for the event if f was its only listener, a later
\* emission of the event does not invoke f, and off() for an unknown event
\* or an absent listener changes nothing and does not fail.
C26_OnOffRoundTrip ==
  [][obs'.lastOp = "off" =>
       /\ \A e \in EventNames \cup {"unknown"} :
            "user" \notin MapGet(eventListeners, e) =>
              LET w == World("off")
                  r == off(on(w, e, "user"), e, "user")
              IN /\ r.eventListeners = eventListeners
                 /\ "user" \notin emit(r, e, Tag(e)).obs.emitted[1].to
                 /\ off(w, e, "user") = w
       /\ LET e == obs'.input.k
          IN /\ obs'.result \in {"removed", "absent"}
             /\ "user" \notin MapGet(eventListeners', e)
             /\ \A x \in DOMAIN eventListeners' : eventListeners'[x] # {}
             /\ \A x \in EventNames \ {e} :
                  /\ MapHas(eventListeners', x) = MapHas(eventListeners, x)
                  /\ MapGet(eventListeners', x) = MapGet(eventListeners, x)
             /\ obs'.result = "absent" => eventListeners' = eventListeners]_vars

C26_Witness ==
  /\ obs.lastOp = "off"
  /\ obs.result = "removed"
  /\ obs.input = Tag("statechange")
  /\ ~MapHas(eventListeners, "statechange")
  /\ ~destroyed

\* C27: a callback registered twice with on() for the same event is stored
\* once: the second registration leaves the registry as it was, an emission
\* invokes the callback once, and a single off() removes it.
C27_RegisteredOnce ==
  [][obs'.lastOp = "on" =>
       /\ obs'.result = "present" => eventListeners' = eventListeners
       /\ \A e \in EventNames :
            LET once == on(World("on"), e, "user")
                twice == on(once, e, "user")
            IN /\ twice.eventListeners = once.eventListeners
               /\ emit(twice, e, Tag(e)).obs.emitted[1].to = MapGet(eventListeners, e) \cup {"user"}
               /\ off(twice, e, "user").eventListeners = off(World("on"), e, "user").eventListeners]_vars

C27_Witness ==
  /\ obs.lastOp = "on"
  /\ obs.result = "present"
  /\ obs.input = Tag("volumechange")
  /\ eventListeners["volumechange"] = {"cfg", "user"}

\* C28: a listener that throws during an emission does not keep the emission
\* from the other listeners registered for the event, and does not disturb
\* the emitting operation: every emission reaches all listeners registered
\* for its event when it is made (destroy() empties the registry before it
\* emits), the exception of each throwing one is caught, and a play() whose
\* engine call returns a handle resolves in state playing.
C28_ThrowingListenerIsolated ==
  [][/\ \A i \in 1..Len(obs'.emitted) :
          /\ obs'.emitted[i].to =
               (IF obs'.lastOp = "destroy" THEN {}
                ELSE MapGet(eventListeners, obs'.emitted[i].ev))
          /\ obs'.emitted[i].caught = obs'.emitted[i].to \cap Throwing
     /\ (obs'.lastOp = "play" /\ Called(obs', "Sound.play") /\ ~obs'.threw
           /\ soundInstance'.h # "null") =>
          /\ obs'.result = "resolved"
          /\ state' = "playing"
          /\ Emitted(obs', "play")]_vars

C28_Witness ==
  /\ obs.lastOp = "play"
  /\ obs.result = "resolved"
  /\ state = "playing"
  /\ Len(obs.emitted) = 2
  /\ obs.emitted[1].ev = "statechange"
  /\ obs.emitted[1].caught = {"faulty"}
  /\ obs.emitted[1].to = {"faulty", "user"}
  /\ obs.emitted[2].ev = "play"
  /\ obs.emitted[2].caught = {"faulty"}
  /\ obs.emitted[2].to = {"cfg", "faulty"}

\* C29: when the load completes the player moves to ready and emits ready;
\* if and only if autoplay is configured it then makes one play attempt,
\* after the ready event; a rejection of that attempt is not propagated (no
\* unhandled rejection, the initialize() chain is where it was) and the load
\* stays completed, so that a manual play() after it reaches the engine.
C29_AutoplayAfterReady ==
  [][/\ obs'.lastOp = "fileload" =>
          /\ Len(obs'.emitted) >= 2
          /\ obs'.emitted[1].ev = "statechange" /\ obs'.emitted[1].arg = Tag("ready")
          /\ obs'.emitted[2].ev = "ready"
          /\ \A i \in 3..Len(obs'.emitted) : obs'.emitted[i].ev \in {"statechange", "play", "error"}
          /\ audioLoaded'
          /\ obs'.unhandled = obs.unhandled
          /\ pc' = pc
          /\ IF config.autoplay
               THEN /\ obs'.result \in {"autoplay resolved", "autoplay failed"}
                    /\ Cardinality({i \in 1..Len(obs'.calls) : obs'.calls[i].fn = "Sound.play"}) <= 1
                    /\ obs'.result = "autoplay resolved" =>
                         (state' = "playing" /\ Called(obs', "Sound.play") /\ Emitted(obs', "play"))
                    /\ obs'.result = "autoplay failed" =>
                         (state' \in {"ready", "error"} /\ ~Emitted(obs', "play"))
               ELSE /\ obs'.result = "none"
                    /\ obs'.calls = <<>>
                    /\ Len(obs'.emitted) = 2
                    /\ state' = "ready"
     /\ audioLoaded => audioLoaded'
     /\ (obs.lastOp = "fileload" /\ obs.result = "autoplay failed" /\ ~destroyed
           /\ obs'.lastOp = "play") => Called(obs', "Sound.play")]_vars

C29_Witness ==
  /\ obs.lastOp = "fileload"
  /\ obs.result = "autoplay failed"
  /\ Called(obs, "Sound.play")
  /\ Len(obs.emitted) = 4
  /\ obs.emitted[2].ev = "ready"
  /\ obs.emitted[4].ev = "error"
  /\ state = "error"
  /\ audioLoaded
  /\ ~obs.unhandled
  /\ ~destroyed

\* C30: timeupdate is emitted periodically during playback: a player that
\* stays in playing eventually delivers timeupdate to its timeupdate
\* listeners, the onTimeUpdate configuration callback among them.
C30_TimeUpdateDelivered ==
  (state = "playing") ~>
    (\/ state # "playing"
     \/ \E i \in 1..Len(obs.emitted) :
          obs.emitted[i].ev = "timeupdate" /\ "cfg" \in obs.emitted[i].to)

\* the source locator of the configuration is missing, empty or not a string
BadSrc(cfg) == cfg.src.k \in {"undefined", "null", "emptystr"} \/ cfg.src.k \notin {"str", "emptystr"}

\* nothing is installed: no listener, no timer, no engine subscription
NothingInstalled ==
  /\ state = "idle"
  /\ eventListeners = EmptyMap
  /\ timers = [loadTimer |-> "unset", poll |-> FALSE, wxListener |-> FALSE, wxTimer |-> "unset"]
  /\ engine.listeners = {}
  /\ ~engine.initialized
  /\ ~engine.registered
  /\ soundInstance = NoInstance
  /\ ~audioLoaded

\* C31: constructing a player whose source locator is missing, empty or not
\* a string throws from the constructor (and only then), and in that case
\* nothing else happens: no state transition, no engine call, no timer or
\* listener is installed, then or later.
C31_InvalidSrcThrows ==
  /\ obs.lastOp = "constructor" =>
       IF BadSrc(obs.input)
         THEN /\ pc = "threw"
              /\ obs.result = "Audio source (src) is required and must be a valid URL"
              /\ obs.emitted = <<>>
              /\ obs.calls = <<>>
         ELSE /\ pc # "threw"
              /\ obs.result = "returned"
              /\ state = "loading"
  /\ pc = "threw" => NothingInstalled

C31_Witness ==
  /\ obs.lastOp = "constructor"
  /\ obs.input.src = EmptyStr
  /\ pc = "threw"
  /\ state = "idle"

\* the value of a nested option after the merge: the caller's when the
\* caller supplied the key, else the default
MergedKey(merged, supplied, key, default) ==
  /\ key \in DOMAIN merged
  /\ merged[key] = (IF key \in DOMAIN supplied THEN supplied[key] ELSE default)

\* C32: configuration normalization fills every unset field with its default
\* (autoplay false, loop false, volume 0.8, muted false, debug false, load
\* timeout 10000, a generated non-empty identifier) and merges the nested
\* load options and platform-bridge options shallowly: a nested key the
\* caller supplied overrides its default, every other nested key keeps it.
C32_DefaultsAndShallowMerge ==
  (obs.lastOp = "constructor" /\ pc # "threw") =>
    LET cfg == obs.input
        c == mergeConfig(cfg)
    IN /\ c.src = cfg.src
       /\ c.autoplay = (IF cfg.autoplay = Undefined THEN Bool(FALSE) ELSE cfg.autoplay)
       /\ c.loop = (IF cfg.loop = Undefined THEN Bool(FALSE) ELSE cfg.loop)
       /\ c.volume = (IF cfg.volume = Undefined THEN Num(8) ELSE cfg.volume)
       /\ c.muted = (IF cfg.muted = Undefined THEN Bool(FALSE) ELSE cfg.muted)
       /\ c.debug = (IF cfg.debug = Undefined THEN Bool(FALSE) ELSE cfg.debug)
       /\ MergedKey(c.loadOptions, cfg.loadOptions, "timeout", Num(10000))
       /\ MergedKey(c.loadOptions, cfg.loadOptions, "preload", Bool(TRUE))
       /\ MergedKey(c.loadOptions, cfg.loadOptions, "id", GeneratedId)
       /\ TypeofString(GeneratedId) /\ ~Falsy(GeneratedId)
       /\ MergedKey(c.weixinConfig, cfg.weixinConfig, "enableJSSDK", Bool(FALSE))
       /\ \A key \in DOMAIN cfg.weixinConfig : c.weixinConfig[key] = cfg.weixinConfig[key]
       /\ config.volume = c.volume
       /\ config.autoplay = (c.autoplay = Bool(TRUE))
       /\ config.loop = (c.loop = Bool(TRUE))
       /\ config.muted = (c.muted = Bool(TRUE))
       /\ (config.jssdk = "off") = (c.weixinConfig["enableJSSDK"] = Bool(FALSE))

C32_Witness ==
  /\ obs.lastOp = "constructor"
  /\ pc # "threw"
  /\ obs.input.volume = Undefined
  /\ obs.input.loadOptions = [timeout |-> Num(3000)]
  /\ obs.input.weixinConfig = [jssdkConfig |-> Tag("object")]
  /\ config.volume = Num(DefaultVolume)
  /\ config.jssdk = "off"
  /\ mergeConfig(obs.input).loadOptions["timeout"] = Num(3000)
  /\ mergeConfig(obs.input).loadOptions["id"] = GeneratedId

\* a number between 0 and 1
VolumeInRange(v) == v.k = "num" /\ 0 <= v.v /\ v.v <= VolumeMax

\* C33: the configured volume is always in [0,1]: for every player that was
\* constructed successfully and after any sequence of operations,
\* getVolume() and getStatus().volume return a number between 0 and 1, and
\* no play request is issued to the engine with a volume outside [0,1].
C33_VolumeAlwaysInRange ==
  pc # "threw" =>
    /\ VolumeInRange(getVolume(World("getVolume")))
    /\ VolumeInRange(getStatus(World("getStatus"), 0, 0, "ok").volume)
    /\ \A i \in 1..Len(obs.calls) :
         obs.calls[i].fn = "Sound.play" => VolumeInRange(obs.calls[i].volume)

\* the user agent of the environment snapshot has the token
HasToken(word) ==
  \E token \in environmentInfo.userAgent :
    token = word \/ (word = "micromessenger" /\ token = "micromessenger/8.0.38")

C35_IosAndroidExclusive ==
  pc # "threw" => ~(environmentInfo.isIOS /\ environmentInfo.isAndroid)

\* C36: in every reachable state, state playing implies the player holds a
\* non-null engine handle; each of the states ready, playing, paused and
\* stopped implies the load has completed; state loading implies the load
\* has not completed; and the load-completed flag, once true, never becomes
\* false.
C36_StateHandleLoadConsistent ==
  [][/\ state' = "playing" => soundInstance'.h # "null"
     /\ state' \in {"ready", "playing", "paused", "stopped"} => audioLoaded'
     /\ state' = "loading" => ~audioLoaded'
     /\ audioLoaded => audioLoaded']_vars

\* C38: the loop mode that governs a playback instance is the one given to
\* the engine at play(): when an instance started single-shot reports
\* natural completion, the player leaves playing (state stopped, one ended
\* event), also when setLoop(true) was called after that play(); it is not
\* left in playing with the finished handle.
C38_InstanceLoopGoverns ==
  [][(obs'.lastOp = "complete" /\ soundInstance.loop = 0 /\ state = "playing") =>
       LET ended == SelectSeq(obs'.emitted, LAMBDA e : e.ev = "ended")
       IN /\ state' = "stopped"
          /\ Len(ended) = 1
          /\ ~(state' = "playing" /\ soundInstance'.playState = "stopped")]_vars

\* C39: engine fileload and fileerror events whose identifier differs from
\* the player's own load identifier leave the player entirely unchanged
\* (state, load-completed flag, handle, timers, listeners; nothing is
\* emitted and no engine call is made): the load success or failure of
\* another player on the same engine never changes this one.
C39_OtherIdentifierIgnored ==
  [][obs'.lastOp \in {"fileload other", "fileerror other"} =>
       /\ state' = state
       /\ audioLoaded' = audioLoaded
       /\ soundInstance' = soundInstance
       /\ destroyed' = destroyed
       /\ eventListeners' = eventListeners
       /\ config' = config
       /\ pc' = pc
       /\ timers' = timers
       /\ engine' = engine
       /\ obs'.emitted = <<>>
       /\ obs'.calls = <<>>
       /\ obs'.unhandled = obs.unhandled]_vars

C39_Witness ==
  /\ obs.lastOp = "fileerror other"
  /\ Bind("handleSoundError") \in engine.listeners
  /\ state = "loading"
  /\ engine.load = "pending"
  /\ timers.loadTimer = "armed"
  /\ ~audioLoaded

\* C40: SoundJSBundle.initialize() throws when the engine global is absent
\* and then leaves the bundle uninitialized (isInitialized() false,
\* getVersion() 'not-initialized'), so that a later initialize() looks for
\* the engine again; once it has succeeded, further initialize() calls do
\* nothing (the engine is configured once) until reset().
C40_BundleInitializeOnce ==
  [][/\ obs'.lastOp = "SoundJSBundle.initialize" =>
          LET after == [engine |-> engine']
              configured == Cardinality({i \in 1..Len(obs'.calls) :
                                           obs'.calls[i].fn = "Sound.setVolume"})
          IN CASE engine.initialized ->
                    /\ obs'.result = "returned"
                    /\ engine' = engine
                    /\ obs'.calls = <<>>
               [] ~engine.initialized /\ ~engine.avail ->
                    /\ obs'.result = "Failed to initialize SoundJS"
                    /\ engine' = engine
                    /\ ~SoundJSBundle_isInitialized(after)
                    /\ SoundJSBundle_getVersion(after) = "not-initialized"
                    /\ configured = 0
               [] OTHER ->
                    /\ obs'.result = "returned"
                    /\ SoundJSBundle_isInitialized(after)
                    /\ SoundJSBundle_getVersion(after) # "not-initialized"
                    /\ configured = 1
     /\ (engine.initialized /\ ~engine'.initialized) => obs'.lastOp = "SoundJSBundle.reset"
     /\ obs'.lastOp = "SoundJSBundle.reset" => ~engine'.initialized]_vars

C40_Witness ==
  /\ obs.lastOp = "SoundJSBundle.initialize"
  /\ obs.result = "returned"
  /\ Called(obs, "Sound.setVolume")
  /\ engine.initialized
  /\ state = "error"
  /\ engine.listeners = {}

\* the state that goes with a lifecycle event
StateOfEvent ==
  [ready |-> "ready", play |-> "playing", pause |-> "paused", stop |-> "stopped",
   ended |-> "stopped", error |-> "error"]

\* C37: when a lifecycle event is delivered to a listener, the state read
\* through getStatus() matches the event (ready: ready, play: playing,
\* pause: paused, stop and ended: stopped, error: error), also when another
\* listener of the same operation reenters the player from its handler.
C37_EventMatchesState ==
  [][\A i \in 1..Len(obs'.emitted) :
       LET e == obs'.emitted[i]
       IN (e.ev \in DOMAIN StateOfEvent /\ e.to # {}) => e.at = StateOfEvent[e.ev]]_vars

====
